---- MODULE Spec2Model ----
(***************************************************************************)
(* A model of the Chess Q&A chatbot of src/bot.py: the Streamlit session   *)
(* state, the script runs that read and write it (page load, a chat turn,  *)
(* the "Clear Chat History" button), the guardrail / greeting / name       *)
(* extraction predicates, and the LangChain window memory behind the LLM   *)
(* call.                                                                   *)
(*                                                                         *)
(* A text is a sequence of one-character strings, so that lower(), strip(),*)
(* the `in` substring test and the regular expressions of the source are   *)
(* computed character by character.                                        *)
(***************************************************************************)
EXTENDS Integers, Sequences, FiniteSets

\* ------------------------------------------------------------------ text

UPPER ==
    <<"A","B","C","D","E","F","G","H","I","J","K","L","M","N","O","P","Q","R","S","T","U","V","W","X","Y","Z">>

LOWER ==
    <<"a","b","c","d","e","f","g","h","i","j","k","l","m","n","o","p","q","r","s","t","u","v","w","x","y","z">>

DIGITS ==
    <<"0","1","2","3","4","5","6","7","8","9">>

Range(s) ==
    { s[i] : i \in 1..Len(s) }

\* Python's None; the source only ever tests it for truthiness.
None ==
    << >>

\* re.search found nothing.
NoMatch ==
    << >>

\* \s of Python's re, on ASCII text.
SPACES ==
    {" ", "\t", "\n", "\r"}

\* [a-zA-Z]
LETTERS ==
    Range(UPPER) \cup Range(LOWER)

\* \w of Python's re, on ASCII text.
WORD_CHARS ==
    LETTERS \cup Range(DIGITS) \cup {"_"}

\* The lower-case and the upper-case form of every letter.
TO_LOWER ==
    [c \in LETTERS |-> IF \E k \in 1..26 : UPPER[k] = c
                       THEN LOWER[CHOOSE k \in 1..26 : UPPER[k] = c] ELSE c]

TO_UPPER ==
    [c \in LETTERS |-> IF \E k \in 1..26 : LOWER[k] = c
                       THEN UPPER[CHOOSE k \in 1..26 : LOWER[k] = c] ELSE c]

IsSpace(c) ==
    c \in SPACES

IsLetter(c) ==
    c \in LETTERS

IsWord(c) ==
    c \in WORD_CHARS

LowerChar(c) ==
    IF c \in LETTERS THEN TO_LOWER[c] ELSE c

UpperChar(c) ==
    IF c \in LETTERS THEN TO_UPPER[c] ELSE c

\* str.lower()
lower(s) ==
    [i \in 1..Len(s) |-> LowerChar(s[i])]

\* str.capitalize(): first character upper-cased, the rest lower-cased.
capitalize(s) ==
    [i \in 1..Len(s) |-> IF i = 1 THEN UpperChar(s[i]) ELSE LowerChar(s[i])]

\* str.strip(): leading and trailing whitespace removed.
strip(s) ==
    LET keep == { i \in 1..Len(s) : ~IsSpace(s[i]) }
    IN  IF keep = {} THEN << >>
        ELSE LET a == CHOOSE i \in keep : \A j \in keep : i <= j
                 b == CHOOSE i \in keep : \A j \in keep : j <= i
             IN  SubSeq(s, a, b)

\* w occurs in s starting at index p.
MatchAt(s, p, w) ==
    /\ p >= 1
    /\ p + Len(w) - 1 <= Len(s)
    /\ \A k \in 1..Len(w) : s[p + k - 1] = w[k]

\* Python's `w in s`.
Contains(s, w) ==
    \E p \in 1..(Len(s) + 1) : MatchAt(s, p, w)

\* Index of the first character at or after p that is no whitespace
\* (Len(s) + 1 when there is none): where a greedy \s* started at p ends.
SkipSpaces(s, p) ==
    LET stop == { j \in p..Len(s) : ~IsSpace(s[j]) }
    IN  IF stop = {} THEN Len(s) + 1
        ELSE CHOOSE j \in stop : \A k \in stop : j <= k

\* Index just past the run of letters starting at p: where [a-zA-Z]* ends.
SkipLetters(s, p) ==
    LET stop == { j \in p..Len(s) : ~IsLetter(s[j]) }
    IN  IF stop = {} THEN Len(s) + 1
        ELSE CHOOSE j \in stop : \A k \in stop : j <= k

\* \s+([a-zA-Z]+) matched at index p: the captured letters, or NoMatch.
\* Whitespace and letters are disjoint, so backtracking finds nothing else.
SpacesThenLetters(s, p) ==
    LET b == SkipSpaces(s, p)
        e == SkipLetters(s, b)
    IN  IF b > p /\ e > b THEN SubSeq(s, b, e - 1) ELSE NoMatch

\* \b of Python's re between s[i] and s[i+1] (i = 0 is the start).
Boundary(s, i) ==
    (i >= 1 /\ i <= Len(s) /\ IsWord(s[i])) # (i + 1 <= Len(s) /\ IsWord(s[i + 1]))

\* --------------------------------------------------------------- guardrails

CHESS_KEYWORDS ==
    << <<"c","h","e","s","s">>,
       <<"c","h","e","c","k","m","a","t","e">>,
       <<"s","t","a","l","e","m","a","t","e">>,
       <<"d","r","a","w">>,
       <<"r","e","s","i","g","n">>,
       <<"p","a","w","n">>,
       <<"k","n","i","g","h","t">>,
       <<"b","i","s","h","o","p">>,
       <<"r","o","o","k">>,
       <<"q","u","e","e","n">>,
       <<"k","i","n","g">>,
       <<"c","a","s","t","l","i","n","g">>,
       <<"e","n"," ","p","a","s","s","a","n","t">>,
       <<"p","r","o","m","o","t","i","o","n">>,
       <<"c","a","p","t","u","r","e">>,
       <<"o","p","e","n","i","n","g">>,
       <<"m","i","d","d","l","e","g","a","m","e">>,
       <<"e","n","d","g","a","m","e">>,
       <<"g","a","m","b","i","t">>,
       <<"d","e","f","e","n","s","e">>,
       <<"f","o","r","k">>,
       <<"p","i","n">>,
       <<"s","k","e","w","e","r">>,
       <<"s","a","c","r","i","f","i","c","e">>,
       <<"t","a","c","t","i","c">>,
       <<"s","t","r","a","t","e","g","y">>,
       <<"g","r","a","n","d","m","a","s","t","e","r">>,
       <<"f","i","d","e">>,
       <<"e","l","o">>,
       <<"r","a","t","i","n","g">>,
       <<"t","o","u","r","n","a","m","e","n","t">>,
       <<"c","a","r","l","s","e","n">>,
       <<"k","a","s","p","a","r","o","v">>,
       <<"f","i","s","c","h","e","r">>,
       <<"k","a","r","p","o","v">>,
       <<"t","a","l">>,
       <<"m","o","v","e">>,
       <<"b","o","a","r","d">>,
       <<"s","q","u","a","r","e">>,
       <<"p","i","e","c","e">>,
       <<"p","o","s","i","t","i","o","n">>,
       <<"g","a","m","e">> >>

\* r'^(hi|hello|hey|greetings|good morning|good afternoon|good evening)'
GREETING_PREFIXES ==
    << <<"h","i">>,
       <<"h","e","l","l","o">>,
       <<"h","e","y">>,
       <<"g","r","e","e","t","i","n","g","s">>,
       <<"g","o","o","d"," ","m","o","r","n","i","n","g">>,
       <<"g","o","o","d"," ","a","f","t","e","r","n","o","o","n">>,
       <<"g","o","o","d"," ","e","v","e","n","i","n","g">> >>

\* r'(i am|i\'m|my name is|this is|call me)\s+[a-zA-Z]+'
INTRO_PHRASES ==
    << <<"i"," ","a","m">>,
       <<"i","'","m">>,
       <<"m","y"," ","n","a","m","e"," ","i","s">>,
       <<"t","h","i","s"," ","i","s">>,
       <<"c","a","l","l"," ","m","e">> >>

\* r'^(thank you|thanks|bye|goodbye)'
FAREWELL_PREFIXES ==
    << <<"t","h","a","n","k"," ","y","o","u">>,
       <<"t","h","a","n","k","s">>,
       <<"b","y","e">>,
       <<"g","o","o","d","b","y","e">> >>

\* Mutant: the allow-list has no self-introduction pattern.
greeting_patterns_without_intro(text_lower) ==
    \/ \E g \in Range(GREETING_PREFIXES) : MatchAt(text_lower, 1, g)
    \/ \E g \in Range(FAREWELL_PREFIXES) : MatchAt(text_lower, 1, g)

\* The three allow-list patterns of is_chess_related, searched in text_lower.
greeting_patterns(text_lower) ==
    \/ \E g \in Range(GREETING_PREFIXES) : MatchAt(text_lower, 1, g)
    \/ \E p \in 1..Len(text_lower) : \E w \in Range(INTRO_PHRASES) :
          /\ MatchAt(text_lower, p, w)
          /\ SpacesThenLetters(text_lower, p + Len(w)) # NoMatch
    \/ \E g \in Range(FAREWELL_PREFIXES) : MatchAt(text_lower, 1, g)

\* The three notation patterns, searched in the text as typed:
\*   \b[a-h][1-8]\b    \b[KQRBN][a-h]?[1-8]?\b    \bO-O(-O)?\b
notation_patterns(text) ==
    LET files == {"a", "b", "c", "d", "e", "f", "g", "h"}
        ranks == {"1", "2", "3", "4", "5", "6", "7", "8"}
        n == Len(text)
    IN  \/ \E i \in 1..(n - 1) :
             /\ Boundary(text, i - 1)
             /\ text[i] \in files
             /\ text[i + 1] \in ranks
             /\ Boundary(text, i + 1)
        \/ \E i \in 1..n :
             /\ Boundary(text, i - 1)
             /\ text[i] \in {"K", "Q", "R", "B", "N"}
             /\ \/ Boundary(text, i)
                \/ /\ i + 1 <= n
                   /\ text[i + 1] \in files \cup ranks
                   /\ Boundary(text, i + 1)
                \/ /\ i + 2 <= n
                   /\ text[i + 1] \in files
                   /\ text[i + 2] \in ranks
                   /\ Boundary(text, i + 2)
        \/ \E i \in 1..n :
             /\ Boundary(text, i - 1)
             /\ MatchAt(text, i, <<"O", "-", "O">>)
             /\ \/ Boundary(text, i + 2)
                \/ /\ MatchAt(text, i + 3, <<"-", "O">>)
                   /\ Boundary(text, i + 4)

\* ChessGuardrails.is_chess_related
is_chess_related(text) ==
    LET text_lower == lower(text)
    IN  \/ greeting_patterns(text_lower)
        \/ \E keyword \in Range(CHESS_KEYWORDS) : Contains(text_lower, keyword)
        \/ notation_patterns(text)

\* ChessGuardrails.get_rejection_message (its first sentence)
get_rejection_message ==
    <<"I"," ","c","a","n"," ","o","n","l","y"," ","a","n","s","w","e","r"," ","q","u","e","s","t","i","o","n","s"," ","r","e","l","a","t","e","d"," ","t","o"," ","c","h","e","s","s",".">>

\* ---------------------------------------------------------- personalization

excluded ==
    << <<"c","h","e","s","s">>,
       <<"h","e","r","e">>,
       <<"t","h","e","r","e">>,
       <<"p","l","a","y","e","r">>,
       <<"l","e","a","r","n","i","n","g">> >>

\* (?:hi|hello|hey) of the second name pattern
NAME_GREETINGS ==
    << <<"h","i">>,
       <<"h","e","l","l","o">>,
       <<"h","e","y">> >>

\* (?:i am|i'm) of the second name pattern
NAME_INTROS ==
    << <<"i"," ","a","m">>,
       <<"i","'","m">> >>

\* r"(?:i am|i'm|my name is|this is|call me)\s+([a-zA-Z]+)": the capture of
\* the leftmost match, or NoMatch.
name_pattern_1(text_lower) ==
    LET hits == { p \in 1..Len(text_lower) :
                    \E w \in Range(INTRO_PHRASES) :
                       /\ MatchAt(text_lower, p, w)
                       /\ SpacesThenLetters(text_lower, p + Len(w)) # NoMatch }
    IN  IF hits = {} THEN NoMatch
        ELSE LET p == CHOOSE q \in hits : \A r \in hits : q <= r
                 w == CHOOSE v \in Range(INTRO_PHRASES) :
                         /\ MatchAt(text_lower, p, v)
                         /\ SpacesThenLetters(text_lower, p + Len(v)) # NoMatch
             IN  SpacesThenLetters(text_lower, p + Len(w))

\* r"^(?:hi|hello|hey),?\s+(?:i am|i'm)\s+([a-zA-Z]+)"
name_pattern_2(text_lower) ==
    LET AfterIntro(p) ==
            \* (?:i am|i'm)\s+([a-zA-Z]+) at index p
            IF \E w \in Range(NAME_INTROS) : MatchAt(text_lower, p, w)
            THEN LET w == CHOOSE v \in Range(NAME_INTROS) : MatchAt(text_lower, p, v)
                 IN  SpacesThenLetters(text_lower, p + Len(w))
            ELSE NoMatch
        AfterGreeting(g) ==
            \* ,?\s+ after the greeting word g, then the introduction
            LET c == IF MatchAt(text_lower, Len(g) + 1, <<",">>) THEN Len(g) + 2 ELSE Len(g) + 1
                b == SkipSpaces(text_lower, c)
            IN  IF MatchAt(text_lower, 1, g) /\ b > c THEN AfterIntro(b) ELSE NoMatch
        ok == { k \in 1..Len(NAME_GREETINGS) : AfterGreeting(NAME_GREETINGS[k]) # NoMatch }
    IN  IF ok = {} THEN NoMatch
        ELSE AfterGreeting(NAME_GREETINGS[CHOOSE k \in ok : \A j \in ok : k <= j])

\* r"^([a-zA-Z]+)\s+here"
name_pattern_3(text_lower) ==
    LET e == SkipLetters(text_lower, 1)
        b == SkipSpaces(text_lower, e)
    IN  IF e > 1 /\ b > e /\ MatchAt(text_lower, b, <<"h", "e", "r", "e">>)
        THEN SubSeq(text_lower, 1, e - 1)
        ELSE NoMatch

\* PersonalizationHelper.extract_name: the patterns in order; a pattern whose
\* capture is an excluded word is passed over and the next one is tried.
extract_name(text) ==
    LET text_lower == lower(text)
        captures == << name_pattern_1(text_lower),
                       name_pattern_2(text_lower),
                       name_pattern_3(text_lower) >>
        good == { k \in 1..3 :
                    /\ captures[k] # NoMatch
                    /\ lower(capitalize(captures[k])) \notin Range(excluded) }
    IN  IF good = {} THEN None
        ELSE capitalize(captures[CHOOSE k \in good : \A j \in good : k <= j])

simple_greetings ==
    << <<"h","i">>,
       <<"h","e","l","l","o">>,
       <<"h","e","y">>,
       <<"g","r","e","e","t","i","n","g","s">>,
       <<"g","o","o","d"," ","m","o","r","n","i","n","g">>,
       <<"g","o","o","d"," ","a","f","t","e","r","n","o","o","n">>,
       <<"g","o","o","d"," ","e","v","e","n","i","n","g">>,
       <<"h","o","w","d","y">>,
       <<"h","i","y","a">>,
       <<"y","o">> >>

\* PersonalizationHelper.is_greeting
is_greeting(text) ==
    strip(lower(text)) \in Range(simple_greetings)

\* PersonalizationHelper.get_greeting_response (first sentence of each text)
get_greeting_response(user_name) ==
    IF user_name # None
    THEN <<"H","e","l","l","o"," ","a","g","a","i","n",","," ">> \o user_name \o <<"!"," ","H","o","w"," ","c","a","n"," ","I"," ","h","e","l","p"," ","y","o","u"," ","w","i","t","h"," ","c","h","e","s","s"," ","t","o","d","a","y","?">>
    ELSE <<"H","e","l","l","o","!"," ","W","e","l","c","o","m","e"," ","t","o"," ","t","h","e"," ","C","h","e","s","s"," ","Q","&","A"," ","B","o","t","!">>

\* ------------------------------------------------------------ configuration

\* Config.MEMORY_K
MEMORY_K ==
    10

\* Config.GREETING_MESSAGE (its first line)
GREETING_MESSAGE ==
    <<"H","e","l","l","o","!"," ","I","'","m"," ","y","o","u","r"," ","C","h","e","s","s"," ","Q","&","A"," ","B","o","t","!">>

\* ------------------------------------------------- LangChain LLM and memory

\* What ChatGroq can do with one request: return a completion, or raise.
\* `text` is the completion, or str(e) of the exception.
Completion(text) ==
    [ok |-> TRUE, text |-> text]

Raises(text) ==
    [ok |-> FALSE, text |-> text]

\* No request was made.
NoResult ==
    [ok |-> FALSE, text |-> << >>]

\* ConversationBufferWindowMemory.save_context, as LLMChain calls it after a
\* completed predict(): the input and the completion as returned.
save_context(memory, input, output) ==
    memory \o << [type |-> "human", content |-> input],
                 [type |-> "ai", content |-> output] >>

\* Mutant: the buffer is never cut to the window.
load_memory_variables_unbounded(memory) ==
    memory

\* ConversationBufferWindowMemory(k = MEMORY_K).load_memory_variables: the
\* chat_history placed in the prompt, the last k exchanges of the buffer.
load_memory_variables(memory) ==
    IF Len(memory) > 2 * MEMORY_K
    THEN SubSeq(memory, Len(memory) - 2 * MEMORY_K + 1, Len(memory))
    ELSE memory

AUTHENTICATION_ERROR ==
    <<"*","*","A","u","t","h","e","n","t","i","c","a","t","i","o","n"," ","E","r","r","o","r","*","*",":"," ","I","n","v","a","l","i","d"," ","A","P","I"," ","k","e","y",".">>

RATE_LIMIT_ERROR ==
    <<"*","*","R","a","t","e"," ","L","i","m","i","t","*","*",":"," ","T","o","o"," ","m","a","n","y"," ","r","e","q","u","e","s","t","s",".">>

\* Mutant: the rate-limit test comes before the authentication test.
error_message_rate_limit_first(e) ==
    LET error_msg == lower(e)
    IN  IF Contains(error_msg, <<"r","a","t","e"," ","l","i","m","i","t">>)
        THEN RATE_LIMIT_ERROR
        ELSE IF \/ Contains(error_msg, <<"a","p","i"," ","k","e","y">>)
                \/ Contains(error_msg, <<"u","n","a","u","t","h","o","r","i","z","e","d">>)
        THEN AUTHENTICATION_ERROR
        ELSE <<"*","*","E","r","r","o","r","*","*",":"," ">> \o e

\* The except branch of generate_response: the message for exception text e.
error_message(e) ==
    LET error_msg == lower(e)
    IN  IF \/ Contains(error_msg, <<"a","p","i"," ","k","e","y">>)
           \/ Contains(error_msg, <<"u","n","a","u","t","h","o","r","i","z","e","d">>)
        THEN AUTHENTICATION_ERROR
        ELSE IF Contains(error_msg, <<"r","a","t","e"," ","l","i","m","i","t">>)
        THEN RATE_LIMIT_ERROR
        ELSE <<"*","*","E","r","r","o","r","*","*",":"," ">> \o e

\* Mutant: the completion is returned without .strip().
generate_response_untrimmed(memory, user_input, result) ==
    IF result.ok
    THEN [response |-> result.text,
          memory |-> save_context(memory, user_input, result.text),
          chat_history |-> load_memory_variables(memory),
          calls |-> 1]
    ELSE [response |-> error_message(result.text),
          memory |-> memory,
          chat_history |-> load_memory_variables(memory),
          calls |-> 1]

\* generate_response: one predict() on a chain over the session's memory.
\* `result` is what the LLM client does with the request. `calls` counts the
\* requests made, `chat_history` is the window the prompt carried.
generate_response(memory, user_input, result) ==
    IF result.ok
    THEN [response |-> strip(result.text),
          memory |-> save_context(memory, user_input, result.text),
          chat_history |-> load_memory_variables(memory),
          calls |-> 1]
    ELSE [response |-> error_message(result.text),
          memory |-> memory,
          chat_history |-> load_memory_variables(memory),
          calls |-> 1]

\* ------------------------------------------------------------ session state

VARIABLES
    GROQ_API_KEY,     \* whether the environment holds a key (Config.GROQ_API_KEY)
    session_keys,     \* the keys present in st.session_state
    messages,         \* st.session_state.messages
    user_name,        \* st.session_state.user_name
    total_questions,  \* st.session_state.total_questions
    memory,           \* st.session_state.memory: the buffer of the window memory
    op,               \* the script run that produced this state
    user_input,       \* the chat input of that run, if it was a turn
    llm_result,       \* what the LLM client did in that run (NoResult: not called)
    llm_calls,        \* the requests made to the LLM client in that run
    turns             \* turns processed since the session was created or cleared

vars ==
    << GROQ_API_KEY, session_keys, messages, user_name, total_questions, memory,
       op, user_input, llm_result, llm_calls, turns >>

\* st.session_state, as one value.
Session ==
    [keys |-> session_keys, messages |-> messages, user_name |-> user_name,
     total_questions |-> total_questions, memory |-> memory]

user_message(content) ==
    [role |-> "user", content |-> content]

assistant_message(content) ==
    [role |-> "assistant", content |-> content]

\* Mutant: the key is not validated.
api_key_missing_unchecked(key) ==
    FALSE

\* `if not Config.GROQ_API_KEY:` of initialize_langchain: st.error and st.stop.
api_key_missing(key) ==
    ~key

\* initialize_session_state. `stopped`: initialize_langchain called st.stop(),
\* which ends the script run there, after the keys set before it.
initialize_session_state(ss, key) ==
    LET s1 == IF "messages" \notin ss.keys
              THEN [ss EXCEPT !.keys = @ \cup {"messages"},
                              !.messages = << assistant_message(GREETING_MESSAGE) >>]
              ELSE ss
        s2 == IF "user_name" \notin s1.keys
              THEN [s1 EXCEPT !.keys = @ \cup {"user_name"}, !.user_name = None]
              ELSE s1
        s3 == IF "total_questions" \notin s2.keys
              THEN [s2 EXCEPT !.keys = @ \cup {"total_questions"}, !.total_questions = 0]
              ELSE s2
        stop == "llm" \notin s3.keys /\ api_key_missing(key)
        s4 == IF "llm" \notin s3.keys /\ ~stop
              THEN [s3 EXCEPT !.keys = @ \cup {"llm", "memory"}, !.memory = << >>]
              ELSE s3
        s5 == IF ~stop
              THEN [s4 EXCEPT !.keys = @ \cup {"session_start_time"}]
              ELSE s4
    IN  [session |-> s5, stopped |-> stop]

\* Mutant: the button forgets memory.clear().
clear_chat_keeps_memory(ss) ==
    [ss EXCEPT !.messages = << assistant_message(GREETING_MESSAGE) >>,
               !.user_name = None,
               !.total_questions = 0]

\* The "Clear Chat History" button of render_sidebar.
clear_chat(ss) ==
    [ss EXCEPT !.messages = << assistant_message(GREETING_MESSAGE) >>,
               !.user_name = None,
               !.total_questions = 0,
               !.memory = << >>]

\* Mutant: the name is extracted whether or not one is stored.
store_name_always(name, text) ==
    LET found == extract_name(text)
    IN  IF found # None THEN found ELSE name

\* "Extract name if introduced" of main.
store_name(name, text) ==
    IF name = None
    THEN LET found == extract_name(text)
         IN  IF found # None THEN found ELSE name
    ELSE name

\* Mutant: the guardrail check is left out.
dispatch_without_guardrail(text) ==
    IF is_greeting(text) THEN "greeting" ELSE "llm"

\* The if / elif / else of main: which branch answers the input.
dispatch(text) ==
    IF is_greeting(text) THEN "greeting"
    ELSE IF ~is_chess_related(text) THEN "rejected"
    ELSE "llm"

\* Mutant: the user message is not appended.
append_exchange_reply_only(history, text, reply) ==
    Append(history, assistant_message(reply))

\* The two appends of a turn: the user message, then the one reply.
append_exchange(history, text, reply) ==
    Append(Append(history, user_message(text)), assistant_message(reply))

\* Mutant: the increment is left out.
count_question_never(count, branch) ==
    count

\* "Increment question counter": the last statement of the else branch.
count_question(count, branch) ==
    IF branch = "llm" THEN count + 1 ELSE count

\* The reply of the branch taken: the canned greeting, the rejection
\* message, or what generate_response returned.
reply_for(branch, name, answer) ==
    CASE branch = "greeting" -> get_greeting_response(name)
      [] branch = "rejected" -> get_rejection_message
      [] OTHER -> answer.response

\* The session after the turn, once the name, the branch and (for the LLM
\* branch, the only one that calls generate_response) the answer are known.
finish_input(ss, text, result, name, branch, answer) ==
    [session |-> [ss EXCEPT !.messages = append_exchange(@, text, reply_for(branch, name, answer)),
                            !.user_name = name,
                            !.total_questions = count_question(@, branch),
                            !.memory = IF branch = "llm" THEN answer.memory ELSE @],
     stopped |-> FALSE,
     result |-> IF branch = "llm" THEN result ELSE NoResult,
     calls |-> IF branch = "llm" THEN answer.calls ELSE 0]

\* The `if user_input:` block of main on session ss; `result` is what the
\* LLM client does if the turn reaches it.
process_input(ss, text, result) ==
    finish_input(ss, text, result, store_name(ss.user_name, text), dispatch(text),
                 generate_response(ss.memory, text, result))

\* main() from initialize_session_state on, with `text` in the chat input.
\* st.stop() in initialize_langchain ends the run before the input is read.
main_with_input(init, text, result) ==
    IF init.stopped
    THEN [session |-> init.session, stopped |-> TRUE, result |-> NoResult, calls |-> 0]
    ELSE process_input(init.session, text, result)

\* main() from initialize_session_state on, with the clear button pressed:
\* the session is cleared and st.rerun() starts the script again, no input.
main_with_clear(init, key) ==
    IF init.stopped
    THEN init
    ELSE initialize_session_state(clear_chat(init.session), key)

\* ------------------------------------------------------------------ inputs

INPUT_HELLO ==
    <<" ","H","e","l","l","o"," ">>

INPUT_ALICE ==
    <<"M","y"," ","n","a","m","e"," ","i","s"," ","A","l","i","c","e">>

INPUT_BOB ==
    <<"I","'","m"," ","B","o","b">>

INPUT_SICILIAN ==
    <<"W","h","a","t"," ","i","s"," ","a"," ","S","i","c","i","l","i","a","n"," ","D","e","f","e","n","s","e","?">>

INPUT_ZED ==
    <<"Z","e","d"," ","h","e","r","e">>

USER_INPUTS ==
    { INPUT_HELLO, INPUT_ALICE, INPUT_BOB, INPUT_SICILIAN, INPUT_ZED }

COMPLETION_TEXT ==
    <<" ","1",".","e","4"," ","c","5"," ","\n">>

ERROR_API_KEY ==
    <<"I","n","v","a","l","i","d"," ","A","P","I"," ","K","e","y">>

ERROR_RATE_LIMIT ==
    <<"R","a","t","e"," ","l","i","m","i","t"," ","r","e","a","c","h","e","d">>

ERROR_BOTH ==
    <<"R","a","t","e"," ","l","i","m","i","t",":"," ","u","n","a","u","t","h","o","r","i","z","e","d">>

ERROR_OTHER ==
    <<"C","o","n","n","e","c","t","i","o","n"," ","e","r","r","o","r",".">>

LLM_ERRORS ==
    { ERROR_API_KEY, ERROR_RATE_LIMIT, ERROR_BOTH, ERROR_OTHER }

LLM_RESULTS ==
    { Completion(COMPLETION_TEXT) } \cup { Raises(e) : e \in LLM_ERRORS }

\* Turns per session between two clears.
MaxTurns ==
    3

\* ----------------------------------------------------------------- actions

Init ==
    /\ GROQ_API_KEY \in BOOLEAN
    /\ session_keys = {}
    /\ messages = << >>
    /\ user_name = None
    /\ total_questions = 0
    /\ memory = << >>
    /\ op = "start"
    /\ user_input = << >>
    /\ llm_result = NoResult
    /\ llm_calls = 0
    /\ turns = 0

SetSession(ss) ==
    /\ session_keys' = ss.keys
    /\ messages' = ss.messages
    /\ user_name' = ss.user_name
    /\ total_questions' = ss.total_questions
    /\ memory' = ss.memory

\* load_dotenv() of a later script run finds a key: the operator has written
\* the .env file. A key once in the process environment stays there.
ProvideKey ==
    /\ ~GROQ_API_KEY
    /\ GROQ_API_KEY' = TRUE
    /\ UNCHANGED << session_keys, messages, user_name, total_questions, memory,
                    op, user_input, llm_result, llm_calls, turns >>

\* A run of main() with no widget input: the page is loaded or reloaded.
RunTo(init) ==
    /\ SetSession(init.session)
    /\ op' = IF init.stopped THEN "stopped" ELSE "run"
    /\ user_input' = << >>
    /\ llm_result' = NoResult
    /\ llm_calls' = 0
    /\ UNCHANGED << GROQ_API_KEY, turns >>

\* Once a run has got past initialize_session_state, a run with no input
\* finds every key present and leaves the session as it is: only the runs of
\* a session not yet initialized are steps.
Run ==
    /\ "session_start_time" \notin session_keys
    /\ RunTo(initialize_session_state(Session, GROQ_API_KEY))

TurnTo(done, text) ==
    /\ SetSession(done.session)
    /\ op' = IF done.stopped THEN "stopped" ELSE "turn"
    /\ user_input' = text
    /\ llm_result' = done.result
    /\ llm_calls' = done.calls
    /\ turns' = IF done.stopped THEN turns ELSE turns + 1
    /\ UNCHANGED GROQ_API_KEY

\* A run of main() in which st.chat_input returns `text`. The input box is on
\* the page only after a run that got past initialize_session_state.
TurnOn(text, result) ==
    /\ "session_start_time" \in session_keys
    /\ TurnTo(main_with_input(initialize_session_state(Session, GROQ_API_KEY),
                              text, result), text)

Turn ==
    /\ turns < MaxTurns
    /\ \E text \in USER_INPUTS, result \in LLM_RESULTS : TurnOn(text, result)

ResetTo(done) ==
    /\ SetSession(done.session)
    /\ op' = IF done.stopped THEN "stopped" ELSE "reset"
    /\ user_input' = << >>
    /\ llm_result' = NoResult
    /\ llm_calls' = 0
    /\ turns' = IF done.stopped THEN turns ELSE 0
    /\ UNCHANGED GROQ_API_KEY

\* A run of main() in which the "Clear Chat History" button is pressed. The
\* button is on the page only after a run that got past
\* initialize_session_state.
Reset ==
    /\ "session_start_time" \in session_keys
    /\ ResetTo(main_with_clear(initialize_session_state(Session, GROQ_API_KEY),
                               GROQ_API_KEY))

Next ==
    \/ ProvideKey
    \/ Run
    \/ Turn
    \/ Reset

Spec ==
    Init /\ [][Next]_vars

\* ------------------------------------------------- the long-session specification

\* A second input alphabet, small enough for sessions longer than the window:
\* one chess question (answered or failed) and one greeting.
INPUT_E4 ==
    <<"e","4">>

WINDOW_INPUTS ==
    { INPUT_E4, INPUT_HELLO }

WINDOW_RESULTS ==
    { Completion(<<" ","c","5"," ">>), Raises(ERROR_RATE_LIMIT) }

\* Turns per session between two clears, in the long-session specification.
MaxWindowTurns ==
    12

\* Of these, the turns that are not answered by a completion.
MaxOtherTurns ==
    2

\* The turns of the history that left nothing in the memory.
OtherTurns ==
    (Len(messages) - 1 - Len(memory)) \div 2

\* A turn of a long session: mostly questions the LLM answers, with at most
\* MaxOtherTurns greetings or failed calls among them.
TurnWindow ==
    /\ turns < MaxWindowTurns
    /\ \E text \in WINDOW_INPUTS, result \in WINDOW_RESULTS :
          /\ (text = INPUT_E4 /\ result.ok) \/ OtherTurns < MaxOtherTurns
          /\ TurnOn(text, result)

NextWindow ==
    \/ ProvideKey
    \/ Run
    \/ TurnWindow
    \/ Reset

SpecWindow ==
    Init /\ [][NextWindow]_vars

\* ------------------------------------------------------------------ claims

\* The window of prior turns the next prompt would carry (the chat_history
\* placeholder of create_chess_prompt, filled from the session's memory).
chat_history ==
    load_memory_variables(memory)

LastMessage ==
    messages[Len(messages)]

\* The step is a turn that went to the LLM branch.
LLMTurn ==
    /\ op' = "turn"
    /\ ~is_greeting(user_input')
    /\ is_chess_related(user_input')

\* The step appended exactly the user's message and one reply.
Appended(reply) ==
    messages' = messages \o << user_message(user_input'), assistant_message(reply) >>

\* The message the spec gives for a failure with text e.
ExpectedErrorReply(e) ==
    IF Contains(lower(e), <<"a","p","i"," ","k","e","y">>) \/ Contains(lower(e), <<"u","n","a","u","t","h","o","r","i","z","e","d">>)
    THEN AUTHENTICATION_ERROR
    ELSE IF Contains(lower(e), <<"r","a","t","e"," ","l","i","m","i","t">>)
    THEN RATE_LIMIT_ERROR
    ELSE <<"*","*","E","r","r","o","r","*","*",":"," ">> \o e

\* C1 as stated: a turn that takes the LLM branch and whose LLM call fails
\* appends an error message as the assistant message and leaves the question
\* count as it was.
C1_FailedTurnNotCounted ==
    [][ (LLMTurn /\ ~llm_result'.ok)
          => /\ Appended(ExpectedErrorReply(llm_result'.text))
             /\ total_questions' = total_questions ]_vars

\* C1 as amended: a turn that takes the LLM branch and whose LLM call fails
\* appends an error message as the assistant message and increments the
\* question count by one, like any other turn of the LLM branch.
C1_FailedTurnCounted ==
    [][ (LLMTurn /\ ~llm_result'.ok)
          => /\ Appended(ExpectedErrorReply(llm_result'.text))
             /\ total_questions' = total_questions + 1 ]_vars

\* A second failed LLM turn has just been answered with the rate-limit text.
C1_Witness ==
    /\ op = "turn"
    /\ llm_calls = 1
    /\ ~llm_result.ok
    /\ LastMessage.content = RATE_LIMIT_ERROR
    /\ total_questions = 2

\* The window with the roles of the message history, and with every content
\* trimmed as a reply is before it enters the history.
WindowAsHistory(w) ==
    [i \in 1..Len(w) |->
        [role |-> IF w[i].type = "human" THEN "user" ELSE "assistant",
         content |-> IF w[i].type = "human" THEN w[i].content ELSE strip(w[i].content)]]

\* The last n entries of s (all of s when it has fewer).
LastN(s, n) ==
    IF Len(s) > n THEN SubSeq(s, Len(s) - n + 1, Len(s)) ELSE s

\* The branch of every input of the model, and the replies a failed call gets.
BRANCH_OF ==
    [t \in USER_INPUTS \cup WINDOW_INPUTS |-> dispatch(t)]

ERROR_REPLIES ==
    { ExpectedErrorReply(e) : e \in LLM_ERRORS }

\* Turn i of the history (entries 2i and 2i+1) went to the LLM and was
\* answered by a completion.
Completed(i) ==
    /\ BRANCH_OF[messages[2 * i].content] = "llm"
    /\ messages[2 * i + 1].content \notin ERROR_REPLIES

RECURSIVE CompletedUpTo(_)
\* The entries of the history, in order, of the completed LLM turns among
\* its first n turns.
CompletedUpTo(n) ==
    IF n = 0 THEN << >>
    ELSE IF Completed(n)
    THEN CompletedUpTo(n - 1) \o << messages[2 * n], messages[2 * n + 1] >>
    ELSE CompletedUpTo(n - 1)

\* C2 as stated: the window supplied to the LLM is a suffix of the message
\* history (replies compared as trimmed), of at most MEMORY_K exchanges.
C2_WindowIsHistorySuffix ==
    /\ Len(chat_history) <= 2 * MEMORY_K
    /\ \E n \in 0..Len(messages) :
          WindowAsHistory(chat_history) = LastN(messages, n)

\* C2 as amended: the window holds the last MEMORY_K of the exchanges that
\* went to the LLM and were answered by a completion since the last clear,
\* in order, each reply as the LLM returned it (the history holds it trimmed);
\* greeting turns, rejected turns and failed LLM turns are in the history but
\* never in the window, so the window is an ordered selection from the
\* history and not in general a suffix of it.
C2_WindowIsLastCompletedExchanges ==
    "memory" \in session_keys =>
        WindowAsHistory(chat_history)
            = LastN(CompletedUpTo((Len(messages) - 1) \div 2), 2 * MEMORY_K)

\* More completed exchanges than the window holds, and a turn that never
\* entered it: the window is cut to MEMORY_K exchanges and is no suffix.
C2_Witness ==
    /\ Len(memory) > 2 * MEMORY_K
    /\ Len(chat_history) = 2 * MEMORY_K
    /\ Len(messages) - 1 > Len(memory)

\* The session is as initialize_session_state first leaves it.
FreshSession ==
    /\ messages = << assistant_message(GREETING_MESSAGE) >>
    /\ user_name = None
    /\ total_questions = 0
    /\ chat_history = << >>

\* C3: after the clear button the history is the seeded greeting alone, the
\* name is unset, the question count is 0 and the window is empty, whatever
\* the session was; clearing a cleared session changes nothing.
C3_ResetTotalIdempotent ==
    /\ op = "reset" => FreshSession
    /\ "session_start_time" \in session_keys =>
          /\ ENABLED Reset
          /\ clear_chat(clear_chat(Session)) = clear_chat(Session)
          /\ clear_chat(Session).messages = << assistant_message(GREETING_MESSAGE) >>
          /\ load_memory_variables(clear_chat(Session).memory) = << >>

\* The session has just been cleared.
C3_Witness ==
    /\ op = "reset"
    /\ FreshSession
    /\ "memory" \in session_keys

\* C4: a turn answered by the greeting branch or by the rejection branch
\* makes no LLM request, leaves the question count (and the window) as it
\* was, and appends the canned greeting, with the stored name if there is
\* one, or the fixed rejection message.
C4_CannedTurnsSkipLLM ==
    [][ (op' = "turn" /\ (is_greeting(user_input') \/ ~is_chess_related(user_input')))
          => /\ llm_calls' = 0
             /\ total_questions' = total_questions
             /\ memory' = memory
             /\ Appended(IF is_greeting(user_input')
                         THEN get_greeting_response(user_name')
                         ELSE get_rejection_message) ]_vars

\* A greeting has just been answered with the stored name, in a session
\* that also holds a rejected turn.
C4_Witness ==
    /\ op = "turn"
    /\ is_greeting(user_input)
    /\ user_name # None
    /\ LastMessage.content = get_greeting_response(user_name)
    /\ \E i \in 1..Len(messages) : messages[i].content = get_rejection_message

\* C5: once a name is stored, no turn changes it, whatever the message; only
\* the clear button unsets it.
C5_NameSticky ==
    [][ user_name # None
          => \/ user_name' = user_name
             \/ op' = "reset" /\ user_name' = None ]_vars

\* A turn whose message introduces another name has left the stored one.
C5_Witness ==
    /\ op = "turn"
    /\ user_name # None
    /\ extract_name(user_input) \notin {None, user_name}

NAME_ALICE ==
    <<"A","l","i","c","e">>

\* The input is "My name is Alice" and the session has no name yet.
AliceIntroduced ==
    /\ op' = "turn"
    /\ user_input' = INPUT_ALICE
    /\ user_name = None

\* C6 as stated: "My name is Alice" in a session with no name stores Alice,
\* is rejected by the guardrail and answered with the rejection text without
\* an LLM request.
C6_AliceRejected ==
    [][ AliceIntroduced
          => /\ user_name' = NAME_ALICE
             /\ llm_calls' = 0
             /\ Appended(get_rejection_message) ]_vars

\* C6 as amended: "My name is Alice" in a session with no name stores Alice;
\* it is no bare greeting and holds no chess keyword, but the guardrail
\* accepts it by its self-introduction pattern, so the LLM is requested once
\* and the reply is the trimmed completion or the error message; the name
\* stays stored through the later turns.
C6_AliceReachesLLM ==
    [][ /\ AliceIntroduced
          => /\ user_name' = NAME_ALICE
             /\ ~is_greeting(user_input')
             /\ \A keyword \in Range(CHESS_KEYWORDS) : ~Contains(lower(user_input'), keyword)
             /\ is_chess_related(user_input')
             /\ llm_calls' = 1
             /\ Appended(IF llm_result'.ok THEN strip(llm_result'.text)
                         ELSE ExpectedErrorReply(llm_result'.text))
        /\ (op' = "turn" /\ Len(messages) >= 2 /\ messages[2] = user_message(INPUT_ALICE))
          => user_name' = NAME_ALICE ]_vars

\* Alice introduced herself in the first turn and a later turn has run.
C6_Witness ==
    /\ op = "turn"
    /\ Len(messages) >= 5
    /\ messages[2] = user_message(INPUT_ALICE)
    /\ messages[3].content # get_rejection_message
    /\ user_name = NAME_ALICE

\* C7: a failed LLM call is requested once, the turn ends with the one error
\* message its text selects (authentication, else rate limit, else the
\* failure echoed) appended after the user's message, and the session keeps
\* its input box, name, memory and LLM client for the next message.
C7_FailureRecovered ==
    [][ (LLMTurn /\ ~llm_result'.ok)
          => /\ llm_calls' = 1
             /\ Appended(ExpectedErrorReply(llm_result'.text))
             /\ memory' = memory
             /\ session_keys' = session_keys
             /\ "session_start_time" \in session_keys' ]_vars

\* After a failed turn answered with the authentication text, a later turn
\* of the same session got its completion.
C7_Witness ==
    /\ op = "turn"
    /\ llm_result.ok
    /\ \E i \in 1..Len(messages) : messages[i].content = AUTHENTICATION_ERROR

\* C8 as stated: while the key is absent no session state is created and no
\* message is processed.
C8_NoSessionWithoutKey ==
    ~GROQ_API_KEY
       => /\ session_keys = {}
          /\ messages = << >>
          /\ op \notin {"turn", "reset", "run"}
          /\ llm_calls = 0

\* C8 as amended: while the key is absent every run stops in
\* initialize_langchain, after the history (the seeded greeting), the name
\* (unset) and the question count (0) have been created; no LLM client, no
\* memory and no input box are ever created, and no message is processed.
C8_StoppedBeforeInput ==
    ~GROQ_API_KEY
       => /\ session_keys \subseteq {"messages", "user_name", "total_questions"}
          /\ op \in {"start", "stopped"}
          /\ op = "stopped" =>
                /\ session_keys = {"messages", "user_name", "total_questions"}
                /\ messages = << assistant_message(GREETING_MESSAGE) >>
          /\ op = "start" => messages = << >>
          /\ user_name = None
          /\ total_questions = 0
          /\ memory = << >>
          /\ llm_calls = 0
          /\ turns = 0
          /\ ~ENABLED Turn

\* A run without the key has stopped.
C8_Witness ==
    /\ ~GROQ_API_KEY
    /\ op = "stopped"
    /\ Len(messages) = 1

\* C9: a turn of the LLM branch whose call completes increments the question
\* count by one and appends the trimmed completion; the count is never
\* negative and only the clear button lowers it.
C9_AnsweredTurnCounted ==
    [][ /\ (LLMTurn /\ llm_result'.ok)
          => /\ total_questions' = total_questions + 1
             /\ llm_calls' = 1
             /\ Appended(strip(llm_result'.text))
        /\ total_questions' >= 0
        /\ total_questions' < total_questions => op' = "reset" ]_vars

\* "What is a Sicilian Defense?" has just been answered, as the second
\* counted question.
C9_Witness ==
    /\ op = "turn"
    /\ user_input = INPUT_SICILIAN
    /\ llm_result.ok
    /\ LastMessage.content # llm_result.text
    /\ total_questions = 2

\* The history starts with the seeded greeting, holds one user message and
\* one assistant message per turn since the last clear, roles alternating.
HistoryShape ==
    "messages" \in session_keys =>
        /\ messages[1] = assistant_message(GREETING_MESSAGE)
        /\ Len(messages) = 1 + 2 * turns
        /\ \A i \in 1..Len(messages) :
              messages[i].role = IF i % 2 = 1 THEN "assistant" ELSE "user"

\* C10: every turn appends the user message and exactly one assistant
\* message after the entries already there; the history keeps its shape
\* (seeded greeting first, length 1 + 2n after n turns, alternating roles)
\* and only the clear button shortens it.
C10_HistoryAppendOnly ==
    [][ /\ HistoryShape'
        /\ op' = "turn"
             => /\ Len(messages') = Len(messages) + 2
                /\ SubSeq(messages', 1, Len(messages)) = messages
                /\ messages'[Len(messages) + 1] = user_message(user_input')
                /\ messages'[Len(messages) + 2].role = "assistant"
        /\ op' # "reset"
             => /\ Len(messages') >= Len(messages)
                /\ SubSeq(messages', 1, Len(messages)) = messages ]_vars

\* A session of two turns, one answered by a canned reply and one by the LLM.
C10_Witness ==
    /\ op = "turn"
    /\ Len(messages) = 5
    /\ \E i \in {2, 4} : BRANCH_OF[messages[i].content] = "llm"
    /\ \E i \in {2, 4} : BRANCH_OF[messages[i].content] # "llm"

====
